---- MODULE Spec2Model ----
(***************************************************************************)
(* Model of the Neo_Translate backend (backend/main.py): the FastAPI       *)
(* handlers chat_text, chat_audio, get_history and generate_summary over   *)
(* the single "messages" table, the static/audio blob directory and the    *)
(* external AI provider.                                                   *)
(*                                                                         *)
(* Granularity.  A handler is a process that stops at every call that      *)
(* leaves the interpreter: a provider call, the blob write, and the two    *)
(* halves of db.commit() (SQLAlchemy evaluates the column default          *)
(* datetime.utcnow when it builds the INSERT, SQLite assigns the rowid     *)
(* when the INSERT takes the write lock).  Handlers of different requests  *)
(* interleave at these points (several workers share the database file).   *)
(*                                                                         *)
(* Requests are numbered in the order their handlers start.  GET /history  *)
(* and GET /summarize come from one reporting client, which waits for the  *)
(* response to one request before it sends the next and keeps the last     *)
(* response only.  creator and log record what happened and are read by no *)
(* handler.                                                                *)
(*                                                                         *)
(* Fault model.  The provider may fail on every call and the blob write    *)
(* may fail; reads and writes of the database succeed.                     *)
(*                                                                         *)
(* Text is modelled by strings, NULL by the empty tuple (None) and a set   *)
(* column value x by <<x>> (Some(x)).                                      *)
(***************************************************************************)
EXTENDS Integers, Sequences, FiniteSets, TLC

\* ------------------------------------------------------------- bounds

\* Number of ingestion requests (chat_text / chat_audio) ever received.
MaxReq == 2
\* Largest value datetime.utcnow reaches.
MaxClock == 2
\* Longest provider response enumerated for perform_translation alone.
MaxLen == 4

Requests == 1..MaxReq
Times == 1..MaxClock

\* ------------------------------------------------------------- inputs

Roles == {"doctor", "patient"}
Texts == {"Take two tablets daily"}
TargetLangs == {"Spanish"}
UploadNames == {"visit.note.wav"}

\* What the provider answers to a chat completion for a translation, to a
\* transcription and to a chat completion for a summary; ok = FALSE is a raised
\* exception and text is then str(e).
TranslateOutcomes ==
    { [ok |-> TRUE, text |-> "\"Tome dos tabletas\"\n"],
      [ok |-> FALSE, text |-> "Connection error."] }
TranscribeOutcomes ==
    { [ok |-> TRUE, text |-> " me duele \n"],
      [ok |-> FALSE, text |-> "Connection error."] }
SummaryOutcomes ==
    { [ok |-> TRUE, text |-> "**PATIENT SYMPTOMS:** pain"],
      [ok |-> FALSE, text |-> "Connection error."] }

None == <<>>
Some(x) == <<x>>

\* ------------------------------------------------------------ strings

Whitespace == {" ", "\t", "\n", "\r"}
Last(s) == SubSeq(s, Len(s), Len(s))

RECURSIVE LStripChars(_, _)
LStripChars(s, chars) ==
    IF s # "" /\ Head(s) \in chars THEN LStripChars(Tail(s), chars) ELSE s

RECURSIVE RStripChars(_, _)
RStripChars(s, chars) ==
    IF s # "" /\ Last(s) \in chars
    THEN RStripChars(SubSeq(s, 1, Len(s) - 1), chars)
    ELSE s

\* str.strip(chars): leading and trailing characters of the set removed.
StripChars(s, chars) == RStripChars(LStripChars(s, chars), chars)

\* str.strip(): leading and trailing whitespace removed.
Strip(s) == StripChars(s, Whitespace)

LowerLetters == "abcdefghijklmnopqrstuvwxyz"
UpperLetters == "ABCDEFGHIJKLMNOPQRSTUVWXYZ"

UpperChar(c) ==
    IF \E i \in 1..26 : SubSeq(LowerLetters, i, i) = c
    THEN LET i == CHOOSE i \in 1..26 : SubSeq(LowerLetters, i, i) = c
         IN  SubSeq(UpperLetters, i, i)
    ELSE c

\* str.upper()
RECURSIVE Upper(_)
Upper(s) == IF s = "" THEN "" ELSE UpperChar(Head(s)) \o Upper(Tail(s))

\* s.split(".")[-1]: what follows the last dot, the whole of s without one.
RECURSIVE SplitLast(_)
SplitLast(s) ==
    IF \E i \in 1..Len(s) : SubSeq(s, i, i) = "."
    THEN SplitLast(Tail(s))
    ELSE s

IsPrefix(p, s) == Len(p) <= Len(s) /\ SubSeq(s, 1, Len(p)) = p

\* ------------------------------------------------------------ helpers

\* completion.choices[0].message.content.strip().strip('"')
CleanCompletion(content) == StripChars(Strip(content), {"\""})

TranslationErrorPrefix == "[Translation Error] "

\* uuid4() left out of the file name.
AudioFilenameOfUpload(n, upload) == "audio_" \o upload

\* perform_translation(text, target_lang), given what the provider does with
\* the one request it sends.
perform_translation(text, target_lang, outcome) ==
    IF outcome.ok
    THEN CleanCompletion(outcome.text)
    ELSE TranslationErrorPrefix \o outcome.text

\* The try/except around client.audio.transcriptions.create in chat_audio.
TranscribeText(outcome) ==
    IF outcome.ok
    THEN Strip(outcome.text)
    ELSE "[Transcription Error: " \o outcome.text \o "]"

\* uuid.uuid4(): the n-th identifier drawn; no two draws are equal.
uuid4(n) == "u" \o ToString(n)

\* f"audio_{uuid.uuid4()}.{file_ext}"
AudioFilename(n, upload) == "audio_" \o uuid4(n) \o "." \o SplitLast(upload)
FilePath(filename) == "static/audio/" \o filename
AudioUrl(filename) == "/static/audio/" \o filename

\* app.mount("/static", StaticFiles(directory="static")): the file a URL under
\* /static is served from.
StaticPath(url) == "static" \o SubSeq(url, Len("/static") + 1, Len(url))

\* ChatMessage(...) as chat_text builds it: original_audio_url is left NULL.
TextMessage(role, text, translated, target_lang) ==
    [ role |-> role,
      original_text |-> text,
      translated_text |-> translated,
      original_lang |-> "Auto",
      target_lang |-> target_lang,
      original_audio_url |-> None ]

\* original_audio_url=audio_url left out of the constructor call.
AudioMessageNoUrl(role, original_text, translated, target_lang, audio_url) ==
    [ role |-> role,
      original_text |-> original_text,
      translated_text |-> translated,
      original_lang |-> "Audio-Auto",
      target_lang |-> target_lang,
      original_audio_url |-> None ]

\* ChatMessage(...) as chat_audio builds it.
AudioMessage(role, original_text, translated, target_lang, audio_url) ==
    [ role |-> role,
      original_text |-> original_text,
      translated_text |-> translated,
      original_lang |-> "Audio-Auto",
      target_lang |-> target_lang,
      original_audio_url |-> Some(audio_url) ]

\* The role normalised on the way into the table.
RowRoleUpper(db_msg, id, ts) ==
    [ id |-> id,
      role |-> Upper(db_msg.role),
      original_text |-> db_msg.original_text,
      translated_text |-> db_msg.translated_text,
      original_lang |-> db_msg.original_lang,
      target_lang |-> db_msg.target_lang,
      original_audio_url |-> db_msg.original_audio_url,
      timestamp |-> ts ]

\* The row the INSERT writes: the primary key is the next rowid, the timestamp
\* the column default evaluated for this INSERT.
Row(db_msg, id, ts) ==
    [ id |-> id,
      role |-> db_msg.role,
      original_text |-> db_msg.original_text,
      translated_text |-> db_msg.translated_text,
      original_lang |-> db_msg.original_lang,
      target_lang |-> db_msg.target_lang,
      original_audio_url |-> db_msg.original_audio_url,
      timestamp |-> ts ]

\* ------------------------------------------------------------ queries

Injections(n) == { p \in [1..n -> 1..n] : \A i, j \in 1..n : p[i] = p[j] => i = j }

SortedByTimestamp(rows) ==
    \A i \in 1..(Len(rows) - 1) : rows[i].timestamp <= rows[i + 1].timestamp

\* order_by left out: the rows by rowid.
OrderByRowid(rows) == {rows}

\* db.query(ChatMessage).order_by(ChatMessage.timestamp).all(): the rows in
\* ascending timestamp order; rows of equal timestamp come in either order.
OrderByTimestamp(rows) ==
    { h \in { [i \in 1..Len(rows) |-> rows[p[i]]] : p \in Injections(Len(rows)) } :
        SortedByTimestamp(h) }

\* db.query(ChatMessage).all(): the rows as the table scan yields them, by rowid.
QueryAll(rows) == rows

\* One transcript line of generate_summary.
TranscriptLine(m) ==
    Upper(m.role) \o ": " \o m.translated_text
        \o " (Original: " \o m.original_text \o ")\n"

RECURSIVE Transcript(_)
Transcript(rows) ==
    IF rows = <<>> THEN "" ELSE TranscriptLine(Head(rows)) \o Transcript(Tail(rows))

NoLogs == "No conversation logs found."

\* -------------------------------------------------------------- state

VARIABLES
    clock,      \* the last time datetime.utcnow() returned
    messages,   \* the rows of table "messages", in rowid order
    creator,    \* creator[i]: the request whose INSERT wrote messages[i]
    files,      \* static/audio: records [name, complete]
    uuids,      \* number of uuid4() draws so far
    pc,         \* pc[r]: where the handler of request r stands: "idle" (not
                \* received), "transcribe", "translate", "commit", "insert",
                \* "done" (message returned) or "error" (error response)
    req,        \* req[r]: the handler's inputs and locals
    log,        \* log[r]: the external calls request r has made, in order
    history,    \* the last response of GET /history
    summary     \* the GET /summarize handler: its position, locals and response

vars == <<clock, messages, creator, files, uuids, pc, req, log, history, summary>>

NoRequest ==
    [ kind |-> "none", role |-> "", text |-> "", target_lang |-> "", upload |-> "",
      filename |-> "", original_text |-> "", db_msg |-> None, timestamp |-> 0,
      returned |-> None ]

IdleSummary ==
    [ pc |-> "idle", seen |-> 0, transcript |-> "", calls |-> 0, response |-> None ]

NoHistory == [ seen |-> 0, rows |-> None, served |-> FALSE ]

Init ==
    /\ clock = 1
    /\ messages = <<>>
    /\ creator = <<>>
    /\ files = {}
    /\ uuids = 0
    /\ pc = [r \in Requests |-> "idle"]
    /\ req = [r \in Requests |-> NoRequest]
    /\ log = [r \in Requests |-> <<>>]
    /\ history = NoHistory
    /\ summary = IdleSummary

\* ------------------------------------------------------------ actions

\* perform_translation without its try/except: a provider failure ends the
\* request in an error response.
ChatTextTranslateUncaught(r, role, text, target_lang, outcome) ==
    /\ pc[r] = "idle"
    /\ \A q \in 1..(r - 1) : pc[q] # "idle"
    /\ LET translated == perform_translation(text, target_lang, outcome)
       IN  /\ log' = [log EXCEPT ![r] = Append(@,
                        [op |-> "translate", input |-> text, lang |-> target_lang,
                         ok |-> outcome.ok, out |-> translated])]
           /\ req' = [req EXCEPT ![r] = [NoRequest EXCEPT
                        !.kind = "text", !.role = role, !.text = text,
                        !.target_lang = target_lang,
                        !.db_msg = IF outcome.ok
                                   THEN Some(TextMessage(role, text, translated,
                                                         target_lang))
                                   ELSE None]]
    /\ pc' = [pc EXCEPT ![r] = IF outcome.ok THEN "commit" ELSE "error"]
    /\ UNCHANGED <<clock, messages, creator, files, uuids, history, summary>>

\* chat_text, called with a valid MessageCreate body: perform_translation, then
\* the ChatMessage is built and added.
ChatTextTranslate(r, role, text, target_lang, outcome) ==
    /\ pc[r] = "idle"
    /\ \A q \in 1..(r - 1) : pc[q] # "idle"
    /\ LET translated == perform_translation(text, target_lang, outcome)
       IN  /\ log' = [log EXCEPT ![r] = Append(@,
                        [op |-> "translate", input |-> text, lang |-> target_lang,
                         ok |-> outcome.ok, out |-> translated])]
           /\ req' = [req EXCEPT ![r] = [NoRequest EXCEPT
                        !.kind = "text", !.role = role, !.text = text,
                        !.target_lang = target_lang,
                        !.db_msg = Some(TextMessage(role, text, translated,
                                                    target_lang))]]
    /\ pc' = [pc EXCEPT ![r] = "commit"]
    /\ UNCHANGED <<clock, messages, creator, files, uuids, history, summary>>

\* db.commit(), first half: the flush evaluates the timestamp default,
\* datetime.utcnow(), which reads now: a time not before the last one read.
CommitDefault(r, now) ==
    /\ pc[r] = "commit"
    /\ now >= clock
    /\ clock' = now
    /\ req' = [req EXCEPT ![r].timestamp = now]
    /\ pc' = [pc EXCEPT ![r] = "insert"]
    /\ UNCHANGED <<messages, creator, files, uuids, log, history, summary>>

\* db.commit(), second half, db.refresh(db_msg) and the return: the row is
\* written under the next rowid, read back and sent to the caller.
CommitInsert(r) ==
    /\ pc[r] = "insert"
    /\ LET row == Row(req[r].db_msg[1], Len(messages) + 1, req[r].timestamp)
       IN  /\ messages' = Append(messages, row)
           /\ creator' = Append(creator, r)
           /\ req' = [req EXCEPT ![r].returned = Some(row)]
           /\ log' = [log EXCEPT ![r] = Append(@,
                        [op |-> "insert", input |-> row.original_text,
                         lang |-> row.target_lang, ok |-> TRUE,
                         out |-> row.translated_text])]
    /\ pc' = [pc EXCEPT ![r] = "done"]
    /\ UNCHANGED <<clock, files, uuids, history, summary>>

\* The failed write swallowed: the handler goes on to transcribe.
SaveAudioFileSwallowed(r, role, target_lang, upload, result) ==
    /\ pc[r] = "idle"
    /\ \A q \in 1..(r - 1) : pc[q] # "idle"
    /\ LET filename == AudioFilename(uuids + 1, upload)
       IN  /\ uuids' = uuids + 1
           /\ req' = [req EXCEPT ![r] = [NoRequest EXCEPT
                        !.kind = "audio", !.role = role,
                        !.target_lang = target_lang, !.upload = upload,
                        !.filename = filename]]
           /\ files' = IF result = "nofile" THEN files
                       ELSE files \cup {[name |-> FilePath(filename),
                                         complete |-> (result = "ok")]}
           /\ log' = [log EXCEPT ![r] = Append(@,
                        [op |-> "save", input |-> FilePath(filename), lang |-> "",
                         ok |-> (result = "ok"), out |-> ""])]
    /\ pc' = [pc EXCEPT ![r] = "transcribe"]
    /\ UNCHANGED <<clock, messages, creator, history, summary>>

\* chat_audio, called with its form fields and the uploaded file, step 1: the
\* file name is drawn and the upload copied to it.  The
\* write succeeds ("ok"), fails in open() before the file exists ("nofile") or
\* fails in copyfileobj leaving a truncated file ("partial"); a failure is not
\* caught and ends the request in an error response.
SaveAudioFile(r, role, target_lang, upload, result) ==
    /\ pc[r] = "idle"
    /\ \A q \in 1..(r - 1) : pc[q] # "idle"
    /\ LET filename == AudioFilename(uuids + 1, upload)
       IN  /\ uuids' = uuids + 1
           /\ req' = [req EXCEPT ![r] = [NoRequest EXCEPT
                        !.kind = "audio", !.role = role,
                        !.target_lang = target_lang, !.upload = upload,
                        !.filename = filename]]
           /\ files' = IF result = "nofile" THEN files
                       ELSE files \cup {[name |-> FilePath(filename),
                                         complete |-> (result = "ok")]}
           /\ log' = [log EXCEPT ![r] = Append(@,
                        [op |-> "save", input |-> FilePath(filename), lang |-> "",
                         ok |-> (result = "ok"), out |-> ""])]
    /\ pc' = [pc EXCEPT ![r] = IF result = "ok" THEN "transcribe" ELSE "error"]
    /\ UNCHANGED <<clock, messages, creator, history, summary>>

\* chat_audio step 2: the saved file is sent to the transcription endpoint.
Transcribe(r, outcome) ==
    /\ pc[r] = "transcribe"
    /\ LET original_text == TranscribeText(outcome)
       IN  /\ req' = [req EXCEPT ![r].original_text = original_text]
           /\ log' = [log EXCEPT ![r] = Append(@,
                        [op |-> "transcribe", input |-> FilePath(req[r].filename),
                         lang |-> "", ok |-> outcome.ok, out |-> original_text])]
    /\ pc' = [pc EXCEPT ![r] = "translate"]
    /\ UNCHANGED <<clock, messages, creator, files, uuids, history, summary>>

\* An error marker from step 2 stored as it is, without a translation call.
ChatAudioTranslateSkipsMarker(r, outcome) ==
    /\ pc[r] = "translate"
    /\ req[r].kind = "audio"
    /\ LET marker == IsPrefix("[Transcription Error", req[r].original_text)
           translated == IF marker THEN req[r].original_text
                         ELSE perform_translation(req[r].original_text,
                                                  req[r].target_lang, outcome)
       IN  /\ log' = IF marker THEN log
                     ELSE [log EXCEPT ![r] = Append(@,
                        [op |-> "translate", input |-> req[r].original_text,
                         lang |-> req[r].target_lang, ok |-> outcome.ok,
                         out |-> translated])]
           /\ req' = [req EXCEPT ![r].db_msg = Some(AudioMessage(req[r].role,
                        req[r].original_text, translated, req[r].target_lang,
                        AudioUrl(req[r].filename)))]
    /\ pc' = [pc EXCEPT ![r] = "commit"]
    /\ UNCHANGED <<clock, messages, creator, files, uuids, history, summary>>

\* chat_audio steps 3 and 4: perform_translation of the transcript, then the
\* ChatMessage is built and added.
ChatAudioTranslate(r, outcome) ==
    /\ pc[r] = "translate"
    /\ req[r].kind = "audio"
    /\ LET translated == perform_translation(req[r].original_text,
                                             req[r].target_lang, outcome)
       IN  /\ log' = [log EXCEPT ![r] = Append(@,
                        [op |-> "translate", input |-> req[r].original_text,
                         lang |-> req[r].target_lang, ok |-> outcome.ok,
                         out |-> translated])]
           /\ req' = [req EXCEPT ![r].db_msg = Some(AudioMessage(req[r].role,
                        req[r].original_text, translated, req[r].target_lang,
                        AudioUrl(req[r].filename)))]
    /\ pc' = [pc EXCEPT ![r] = "commit"]
    /\ UNCHANGED <<clock, messages, creator, files, uuids, history, summary>>

\* GET /history
get_history ==
    /\ summary.pc \in {"idle", "done"}
    /\ \E h \in OrderByTimestamp(messages) :
          history' = [seen |-> Len(messages), rows |-> h, served |-> TRUE]
    /\ summary' = IdleSummary
    /\ UNCHANGED <<clock, messages, creator, files, uuids, pc, req, log>>

SummaryPrompt(transcript) ==
    "You are a medical scribe. Summarize the following consultation.\n"
        \o "Format strictly as:\n"
        \o "**PATIENT SYMPTOMS:** ...\n"
        \o "**DIAGNOSIS:** ...\n"
        \o "**MEDICATIONS/PLAN:** ...\n\n"
        \o "TRANSCRIPT:\n" \o transcript

\* The check for an empty result left out.
SummaryQueryNoEmptyCheck ==
    /\ summary.pc \in {"idle", "done"}
    /\ LET rows == QueryAll(messages)
       IN  summary' = [pc |-> "call", seen |-> Len(rows),
                       transcript |-> Transcript(rows), calls |-> 0,
                       response |-> None]
    /\ history' = NoHistory
    /\ UNCHANGED <<clock, messages, creator, files, uuids, pc, req, log>>

\* GET /summarize up to the provider call: the rows are read; without rows the
\* handler answers at once, otherwise the transcript and the prompt are built.
SummaryQuery ==
    /\ summary.pc \in {"idle", "done"}
    /\ LET rows == QueryAll(messages)
       IN  summary' =
             IF rows = <<>>
             THEN [pc |-> "done", seen |-> 0, transcript |-> "", calls |-> 0,
                   response |-> Some(NoLogs)]
             ELSE [pc |-> "call", seen |-> Len(rows),
                   transcript |-> Transcript(rows), calls |-> 0,
                   response |-> None]
    /\ history' = NoHistory
    /\ UNCHANGED <<clock, messages, creator, files, uuids, pc, req, log>>

\* GET /summarize: the chat completion for SummaryPrompt(transcript) and the
\* response, "Summary failed: ..." when the provider raised.
SummaryCall(outcome) ==
    /\ summary.pc = "call"
    /\ summary' = [summary EXCEPT
                     !.pc = "done",
                     !.calls = @ + 1,
                     !.response = Some(IF outcome.ok THEN outcome.text
                                       ELSE "Summary failed: " \o outcome.text)]
    /\ UNCHANGED <<clock, messages, creator, files, uuids, pc, req, log, history>>

\* The ingestion handlers.
NextIngest ==
    \/ \E r \in Requests, role \in Roles, text \in Texts, lang \in TargetLangs,
          o \in TranslateOutcomes :
          ChatTextTranslate(r, role, text, lang, o)
    \/ \E r \in Requests, role \in Roles, lang \in TargetLangs, up \in UploadNames,
          res \in {"ok", "nofile", "partial"} :
          SaveAudioFile(r, role, lang, up, res)
    \/ \E r \in Requests, o \in TranscribeOutcomes : Transcribe(r, o)
    \/ \E r \in Requests, o \in TranslateOutcomes : ChatAudioTranslate(r, o)
    \/ \E r \in Requests, now \in Times : CommitDefault(r, now)
    \/ \E r \in Requests : CommitInsert(r)

\* The reporting handlers.
NextReport ==
    \/ get_history
    \/ \E o \in SummaryOutcomes : SummaryCall(o)
    \/ SummaryQuery

Next == NextIngest \/ NextReport

Spec == Init /\ [][Next]_vars

\* The ingestion handlers alone.  The reporting handlers write history and
\* summary only and no ingestion handler reads these, so the values of clock,
\* messages, creator, files, uuids, pc, req and log reachable under Spec are
\* those reachable under SpecIngest.
SpecIngest == Init /\ [][NextIngest]_vars

\* -------------------------------------------- perform_translation alone

\* The characters provider responses are enumerated over: a letter, a
\* whitespace character and the double quote.
Alphabet == {"a", " ", "\""}

RECURSIVE StringsOfLen(_)
StringsOfLen(n) ==
    IF n = 0 THEN {""}
    ELSE { c \o s : c \in Alphabet, s \in StringsOfLen(n - 1) }

BoundedStrings == UNION { StringsOfLen(n) : n \in 0..MaxLen }

\* One chat_text request whose translation response is any string of at most
\* MaxLen characters.
NextTranslate ==
    \/ \E role \in Roles, text \in Texts, lang \in TargetLangs, s \in BoundedStrings :
          ChatTextTranslate(1, role, text, lang, [ok |-> TRUE, text |-> s])
    \/ \E role \in Roles, text \in Texts, lang \in TargetLangs, o \in TranslateOutcomes :
          ~o.ok /\ ChatTextTranslate(1, role, text, lang, o)
    \/ \E now \in Times : CommitDefault(1, now)
    \/ CommitInsert(1)

SpecTranslate == Init /\ [][NextTranslate]_vars

\* ------------------------------------------------------------- claims

\* The rows request r inserted, and the calls of one kind it made.
Created(r) == { i \in 1..Len(messages) : creator[i] = r }
Calls(r, op) == { i \in 1..Len(log[r]) : log[r][i].op = op }
Done == { r \in Requests : pc[r] = "done" }

\* C1: every response of GET /history holds exactly the rows stored when the
\* query ran, in non-decreasing timestamp order; on an empty store it is the
\* empty sequence.
C1_HistoryInTimestampOrder ==
    history.served =>
        /\ SortedByTimestamp(history.rows)
        /\ Len(history.rows) = history.seen
        /\ history.seen <= Len(messages)
        /\ { history.rows[i] : i \in 1..history.seen }
             = { messages[i] : i \in 1..history.seen }
        /\ (history.seen = 0 => history.rows = <<>>)

\* A response of two rows whose timestamp order is the reverse of their id order.
C1_Witness ==
    /\ history.served
    /\ history.seen = 2
    /\ history.rows[1].id = 2
    /\ history.rows[1].timestamp < history.rows[2].timestamp

\* C2: the transcript generate_summary builds from a non-empty store has one
\* line per stored message, in ascending timestamp order of the messages (an
\* order get_history can return).
C2_TranscriptInTimestampOrder ==
    (summary.pc \in {"call", "done"} /\ summary.seen > 0) =>
        summary.transcript \in
            { Transcript(h) : h \in OrderByTimestamp(SubSeq(messages, 1, summary.seen)) }

\* C3: a request whose translation call failed made that call once, is not
\* aborted by it, and ends with exactly one row inserted, whose translated_text
\* begins with "[Translation Error] " and which is the message returned.
C3_TranslateFailureStillPersists ==
    \A r \in Requests : \A i \in Calls(r, "translate") :
        ~log[r][i].ok =>
            /\ Cardinality(Calls(r, "translate")) = 1
            /\ IsPrefix(TranslationErrorPrefix, log[r][i].out)
            /\ pc[r] \in {"commit", "insert", "done"}
            /\ pc[r] = "commit" => ENABLED CommitDefault(r, clock)
            /\ pc[r] = "insert" => ENABLED CommitInsert(r)
            /\ pc[r] # "done" => Created(r) = {}
            /\ pc[r] = "done" =>
                 /\ Cardinality(Created(r)) = 1
                 /\ \A j \in Created(r) :
                      /\ messages[j].translated_text = log[r][i].out
                      /\ req[r].returned = Some(messages[j])

\* A text and an audio request have both completed after a failed translation.
C3_Witness ==
    \E r, q \in Done :
        /\ req[r].kind = "text" /\ req[q].kind = "audio"
        /\ \E i \in Calls(r, "translate") : ~log[r][i].ok
        /\ \E i \in Calls(q, "translate") : ~log[q][i].ok

\* C4: a stored message has original_audio_url set iff chat_audio created it,
\* and then original_lang is "Audio-Auto"; a message chat_text created has
\* original_lang "Auto" and no original_audio_url.
C4_AudioUrlIffAudio ==
    \A i \in 1..Len(messages) :
        LET m == messages[i]
            kind == req[creator[i]].kind
        IN  /\ (m.original_audio_url # None) <=> (kind = "audio")
            /\ kind = "audio" =>
                 /\ m.original_lang = "Audio-Auto"
                 /\ Len(m.original_audio_url) = 1
                 /\ m.original_audio_url[1] # ""
            /\ kind = "text" =>
                 /\ m.original_lang = "Auto"
                 /\ m.original_audio_url = None

\* The store holds a message of each variant.
C4_Witness ==
    \E i, j \in 1..Len(messages) :
        req[creator[i]].kind = "text" /\ req[creator[j]].kind = "audio"

\* C5: generate_summary that found the store empty answers "No conversation
\* logs found." and has called the provider zero times; one that found rows has
\* called it exactly once when it answers, and not before the transcript is built.
C5_SummaryProviderCalls ==
    /\ summary.pc = "call" => summary.seen > 0 /\ summary.calls = 0
    /\ summary.pc = "done" =>
         IF summary.seen = 0
         THEN summary.response = Some(NoLogs) /\ summary.calls = 0
         ELSE summary.calls = 1 /\ summary.response # Some(NoLogs)

\* generate_summary has answered on an empty store.
C5_Witness ==
    summary.pc = "done" /\ summary.seen = 0 /\ summary.response = Some(NoLogs)

\* C6: the message returned by a completed chat_text or chat_audio request is
\* still the stored row of its id, carries the caller's role, target_lang and
\* (chat_text) text verbatim, and is in every GET /history response queried
\* after it was returned; the store holds the returned messages and nothing else.
C6_RoundTripImmutable ==
    /\ Len(messages) = Cardinality(Done)
    /\ \A r \in Done :
         /\ Len(req[r].returned) = 1
         /\ LET m == req[r].returned[1]
            IN  /\ m.id \in 1..Len(messages)
                /\ messages[m.id] = m
                /\ creator[m.id] = r
                /\ m.role = req[r].role
                /\ m.target_lang = req[r].target_lang
                /\ req[r].kind = "text" => m.original_text = req[r].text
                /\ (history.served /\ m.id <= history.seen) =>
                     \E j \in 1..Len(history.rows) : history.rows[j] = m

\* A message returned first is in a history response queried after a second
\* insert.
C6_Witness ==
    /\ history.served
    /\ history.seen = 2
    /\ \E r \in Done :
         /\ req[r].returned[1].id = 1
         /\ \E j \in 1..2 : history.rows[j] = req[r].returned[1]

\* C7: a chat_audio request whose blob write failed has ended in an error
\* response, has called neither transcribe nor translate and has inserted no
\* message.
C7_BlobFailureAborts ==
    \A r \in Requests : \A i \in Calls(r, "save") :
        ~log[r][i].ok =>
            /\ pc[r] = "error"
            /\ Calls(r, "transcribe") = {}
            /\ Calls(r, "translate") = {}
            /\ Created(r) = {}
            /\ req[r].returned = None

\* A blob write has failed while the store holds another request's message.
C7_Witness ==
    \E r \in Requests :
        /\ pc[r] = "error"
        /\ \E i \in Calls(r, "save") : ~log[r][i].ok
        /\ Len(messages) = 1

\* C8: the calls of a chat_audio request are a prefix of blob write, transcribe,
\* translate, insert; the blob write succeeded before transcribe; translate is
\* given exactly what transcribe produced, error marker or not; the insert
\* stores that same original_text and what translate returned.
C8_AudioStepOrder ==
    \A r \in Requests :
        req[r].kind = "audio" =>
            LET l == log[r]
                order == <<"save", "transcribe", "translate", "insert">>
            IN  /\ Len(l) <= 4
                /\ \A i \in 1..Len(l) : l[i].op = order[i]
                /\ Len(l) >= 2 => l[1].ok
                /\ Len(l) >= 3 => l[3].input = l[2].out
                /\ Created(r) # {} => Len(l) = 4
                /\ Len(l) = 4 =>
                     /\ Cardinality(Created(r)) = 1
                     /\ \A j \in Created(r) :
                          /\ messages[j].original_text = l[2].out
                          /\ messages[j].translated_text = l[3].out

\* A chat_audio request has completed whose transcription failed.
C8_Witness ==
    \E r \in Done :
        /\ req[r].kind = "audio"
        /\ Len(log[r]) = 4
        /\ ~log[r][2].ok
        /\ IsPrefix("[Transcription Error: ", log[r][3].input)

QuoteChars == {"\"", "'"}

\* C9: what a successful perform_translation returns neither starts nor ends
\* with a whitespace character or a quote character.
C9_TranslationStripped ==
    \A r \in Requests : \A i \in Calls(r, "translate") :
        (log[r][i].ok /\ log[r][i].out # "") =>
            /\ Head(log[r][i].out) \notin Whitespace \cup QuoteChars
            /\ Last(log[r][i].out) \notin Whitespace \cup QuoteChars

\* C10: the original_audio_url of a stored message is served from a completely
\* written file of static/audio, and no two stored messages share one.
C10_AudioBlobExists ==
    /\ \A i \in 1..Len(messages) :
         messages[i].original_audio_url # None =>
            [name |-> StaticPath(messages[i].original_audio_url[1]),
             complete |-> TRUE] \in files
    /\ \A i, j \in 1..Len(messages) :
         (/\ i # j
          /\ messages[i].original_audio_url # None
          /\ messages[j].original_audio_url # None)
            => messages[i].original_audio_url # messages[j].original_audio_url

\* Two messages with audio are stored.
C10_Witness ==
    \E i, j \in 1..Len(messages) :
        /\ i # j
        /\ messages[i].original_audio_url # None
        /\ messages[j].original_audio_url # None

====
